---- MODULE Spec2Model ----
(***************************************************************************)
(* Model of the numerical core of synbio_morpher:                          *)
(*   utils/modelling/physical.py           (energies -> rate constants)    *)
(*   utils/results/analytics/timeseries.py (time-series analytics)         *)
(*                                                                         *)
(* The library is a set of pure functions over floating-point arrays.  A   *)
(* call is one action: it draws its arguments from bounded sets and        *)
(* records arguments and result; Return hands the result to the caller.    *)
(*                                                                         *)
(* Numbers are binary floating-point values of a reduced format with the   *)
(* structure of IEEE-754 (round to nearest, ties to even, gradual          *)
(* underflow, overflow to infinity, signed zeros and infinities, NaN).  A  *)
(* finite value holds a sign and a magnitude of n quanta 2^-FracBits; n    *)
(* has at most Precision significant bits.                                 *)
(***************************************************************************)
EXTENDS Integers, Sequences, FiniteSets, TLC

VARIABLES pc, op, args, ret

vars == <<pc, op, args, ret>>

(* ------------------------------ bounds -------------------------------- *)
\* significand bits of the float format (float32: 24)
Precision == 3
\* the quantum is 2^-FracBits (float32: 2^-149)
FracBits == 8
\* the largest finite value is (2^Precision - 1) * 2^(ExpRange - FracBits)
ExpRange == 10
\* species (rows) of a trajectory
MaxSpecies == 2
\* time samples (columns) of a trajectory
MaxTime == 3
\* input amounts are the integers 0..MaxVal (-1..MaxVal where a function is
\* called on its own)
MaxVal == 3

(* --------------------------- float format ----------------------------- *)
RECURSIVE Pow2(_)
Pow2(k) == IF k = 0 THEN 1 ELSE 2 * Pow2(k - 1)

\* 2^Precision, and the quanta in 1
TwoP == Pow2(Precision)
Quantum == Pow2(FracBits)
MaxN == (TwoP - 1) * Pow2(ExpRange)

\* a value is <<kind, sign, magnitude>>, sign and magnitude apart as in
\* IEEE-754, so that zero and infinity carry a sign
NaN == <<"nan", 1, 0>>
PInf == <<"inf", 1, 0>>
NInf == <<"inf", -1, 0>>
Fin(s, n) == <<"f", s, n>>
Zero == Fin(1, 0)
NegZero == Fin(-1, 0)

IsNaN(x) == x[1] = "nan"
IsInf(x) == x[1] = "inf"
IsFin(x) == x[1] = "f"
IsZero(x) == IsFin(x) /\ x[3] = 0
Sgn(x) == x[2]
AbsInt(n) == IF n < 0 THEN -n ELSE n
InfOf(s) == <<"inf", s, 0>>

\* number of low bits a magnitude of q quanta loses to fit Precision bits
RECURSIVE GridShift(_)
GridShift(q) == IF q < TwoP THEN 0 ELSE 1 + GridShift(q \div 2)

\* m units and a remainder of r out of U, to the nearest unit, ties to even
Nearest(m, r, U) ==
    IF (r > U - r) \/ (r = U - r /\ m % 2 = 1) THEN m + 1 ELSE m

\* overflow to infinity
Saturate(s, n) == IF n > MaxN THEN InfOf(s) ELSE Fin(s, n)

RoundUnit(s, N, U, D) == Saturate(s, Nearest(N \div (U * D), N % (U * D), U * D) * U)

\* s * N / D quanta (N >= 0, D > 0) rounded to the format
RoundRat(s, N, D) == RoundUnit(s, N, Pow2(GridShift(N \div D)), D)

\* the float nearest to the rational a/b (b > 0): how a literal or an input
\* number enters an array
FromRat(a, b) == RoundRat(IF a < 0 THEN -1 ELSE 1, AbsInt(a) * Quantum, b)
FromInt(v) == FromRat(v, 1)
One == FromInt(1)
MinusOne == FromInt(-1)

(* ------------------------ element-wise arithmetic --------------------- *)
FNeg(x) == IF IsNaN(x) THEN NaN ELSE <<x[1], -x[2], x[3]>>

FAbs(x) == IF IsNaN(x) THEN NaN ELSE <<x[1], 1, x[3]>>

\* the sum of two finite values of n quanta; an exact zero sum is +0 unless
\* both terms are negative
AddFinite(x, y, n) ==
    IF n = 0 THEN Fin(IF x[2] = -1 /\ y[2] = -1 THEN -1 ELSE 1, 0)
    ELSE RoundRat(IF n < 0 THEN -1 ELSE 1, AbsInt(n), 1)

FAdd(x, y) ==
    IF IsNaN(x) \/ IsNaN(y) THEN NaN
    ELSE IF IsInf(x) /\ IsInf(y) THEN (IF x = y THEN x ELSE NaN)
    ELSE IF IsInf(x) THEN x
    ELSE IF IsInf(y) THEN y
    ELSE AddFinite(x, y, x[2] * x[3] + y[2] * y[3])

FSub(x, y) == FAdd(x, FNeg(y))

FMul(x, y) ==
    IF IsNaN(x) \/ IsNaN(y) THEN NaN
    ELSE IF IsInf(x) \/ IsInf(y)
         THEN (IF IsZero(x) \/ IsZero(y) THEN NaN ELSE InfOf(x[2] * y[2]))
    ELSE RoundRat(x[2] * y[2], x[3] * y[3], Quantum)

FDiv(x, y) ==
    IF IsNaN(x) \/ IsNaN(y) THEN NaN
    ELSE IF IsInf(x) THEN (IF IsInf(y) THEN NaN ELSE InfOf(x[2] * y[2]))
    ELSE IF IsInf(y) THEN Fin(x[2] * y[2], 0)
    ELSE IF IsZero(y) THEN (IF IsZero(x) THEN NaN ELSE InfOf(x[2] * y[2]))
    ELSE RoundRat(x[2] * y[2], x[3] * Quantum, y[3])

\* the order of the non-NaN values; the two zeros are equal
Key(x) == IF IsInf(x) THEN x[2] * (MaxN + 1) ELSE x[2] * x[3]
FLt(x, y) == ~IsNaN(x) /\ ~IsNaN(y) /\ Key(x) < Key(y)
FGt(x, y) == FLt(y, x)
FEq(x, y) == ~IsNaN(x) /\ ~IsNaN(y) /\ Key(x) = Key(y)
FNe(x, y) == ~FEq(x, y)
FMax2(x, y) == IF IsNaN(x) \/ IsNaN(y) THEN NaN ELSE IF FLt(x, y) THEN y ELSE x
FMin2(x, y) == IF IsNaN(x) \/ IsNaN(y) THEN NaN ELSE IF FLt(y, x) THEN y ELSE x

RECURSIVE FMax(_)
FMax(row) == IF Len(row) = 1 THEN row[1] ELSE FMax2(row[1], FMax(Tail(row)))
RECURSIVE FMin(_)
FMin(row) == IF Len(row) = 1 THEN row[1] ELSE FMin2(row[1], FMin(Tail(row)))

(* ------------------------------ arrays -------------------------------- *)
\* a vector is a sequence of floats, a matrix a sequence of rows; Python's
\* index i is position i + 1
Column(data, j) == [i \in 1..Len(data) |-> data[i][j]]
Shape(data) == <<Len(data), Len(data[1])>>
\* np.swapaxes(data, 0, 1)
SwapAxes(data) == [j \in 1..Len(data[1]) |-> Column(data, j)]
\* v[idx] for Python's index idx: jax clamps an index past the end
At(v, idx) == v[IF idx + 1 > Len(v) THEN Len(v) ELSE idx + 1]
EmptyDict == [k \in {} |-> <<>>]
\* Python's None where a vector may stand (no vector of the model is empty)
None == <<>>

(* ------------------- timeseries.py: element-wise metrics -------------- *)
\* compute_fold_change: -1 marks a zero baseline
compute_fold_change(starting_states, steady_states) ==
    LET denom == [i \in 1..Len(starting_states) |->
                    IF FNe(starting_states[i], Zero) THEN starting_states[i]
                    ELSE MinusOne]
    IN  [i \in 1..Len(starting_states) |->
            IF FNe(denom[i], MinusOne) THEN FDiv(steady_states[i], denom[i])
            ELSE NaN]

compute_overshoot(steady_states, peaks) ==
    [i \in 1..Len(peaks) |-> FAbs(FSub(peaks[i], steady_states[i]))]

\* mutant: `is` read as equality of the two arrays
PeakIsMinaByValue(peak, mina) == peak = mina

\* `peak is mina`: object identity of two arrays.  peak is the array where()
\* has just built, never the object bound to mina.
PeakIsMina(peak, mina) == FALSE

compute_peaks(initial_steady_states, final_steady_states, maxa, mina) ==
    LET peak == [i \in 1..Len(maxa) |->
                    IF FGt(final_steady_states[i], initial_steady_states[i])
                    THEN maxa[i] ELSE mina[i]]
        other == IF PeakIsMina(peak, mina) THEN maxa ELSE mina
    IN  [i \in 1..Len(maxa) |->
            IF FLt(initial_steady_states[i], peak[i]) THEN peak[i] ELSE other[i]]

\* mutant: the reciprocal, jnp.divide(1, precision)
calculate_precision_core_reciprocal(output_diff, starting_states, signal_diff, signal_0) ==
    LET numer == IF FNe(signal_0, Zero) THEN FDiv(signal_diff, signal_0) ELSE One
        denom == [i \in 1..Len(starting_states) |->
                    IF FNe(starting_states[i], Zero)
                    THEN FDiv(output_diff[i], starting_states[i]) ELSE One]
    IN  [i \in 1..Len(starting_states) |-> FAbs(FDiv(denom[i], numer))]

\* signal_diff and signal_0 are scalars, output_diff and starting_states vectors
calculate_precision_core(output_diff, starting_states, signal_diff, signal_0) ==
    LET numer == IF FNe(signal_0, Zero) THEN FDiv(signal_diff, signal_0) ELSE One
        denom == [i \in 1..Len(starting_states) |->
                    IF FNe(starting_states[i], Zero)
                    THEN FDiv(output_diff[i], starting_states[i]) ELSE One]
    IN  [i \in 1..Len(starting_states) |-> FAbs(FDiv(numer, denom[i]))]

compute_precision(starting_states, steady_states, signal_0, signal_1) ==
    LET signal_diff == FSub(signal_1, signal_0)
        output_diff == [i \in 1..Len(starting_states) |->
                          FSub(steady_states[i], starting_states[i])]
    IN  calculate_precision_core(output_diff, starting_states, signal_diff, signal_0)

\* mutant: an unchanged output is not told apart (no NaN numerator)
calculate_sensitivity_core_no_nan(output_diff, starting_states, signal_diff, signal_0) ==
    LET numer == [i \in 1..Len(starting_states) |->
                    IF FNe(starting_states[i], Zero)
                    THEN FDiv(output_diff[i], starting_states[i])
                    ELSE PInf]
    IN  [i \in 1..Len(starting_states) |->
            IF FNe(signal_0, Zero)
            THEN FAbs(FDiv(numer[i], FDiv(signal_diff, signal_0)))
            ELSE PInf]

calculate_sensitivity_core(output_diff, starting_states, signal_diff, signal_0) ==
    LET numer == [i \in 1..Len(starting_states) |->
                    IF FNe(starting_states[i], Zero)
                    THEN FDiv(IF FNe(output_diff[i], Zero) THEN output_diff[i] ELSE NaN,
                              starting_states[i])
                    ELSE PInf]
    IN  [i \in 1..Len(starting_states) |->
            IF FNe(signal_0, Zero)
            THEN FAbs(FDiv(numer[i], FDiv(signal_diff, signal_0)))
            ELSE PInf]

\* signal_idx is Python's index of the signal species
compute_sensitivity(signal_idx, starting_states, peaks) ==
    LET signal_1 == At(peaks, signal_idx)
        signal_0 == At(starting_states, signal_idx)
        output_diff == [i \in 1..Len(peaks) |-> FSub(peaks[i], starting_states[i])]
        signal_diff == FSub(signal_1, signal_0)
    IN  calculate_sensitivity_core(output_diff, starting_states, signal_diff, signal_0)

\* compute_rmse without a reference circuit: zeros of shape (species, 1),
\* squeezed by the caller
compute_rmse_none(data) == [i \in 1..Len(data) |-> Zero]

(* ----------------- timeseries.py: step response time ------------------ *)
perc_settling_time == FromRat(1, 100)

\* is_data_outside_stst, one element.  For the amounts the actions draw
\* (integers, none negative) the band of the reduced format holds the same
\* samples as the band of float32
IsOutside(x, ss) ==
    \/ FGt(x, FAdd(ss, FMul(ss, perc_settling_time)))
    \/ FLt(x, FSub(ss, FMul(ss, perc_settling_time)))

\* a boolean mask entering arithmetic
Mask(b) == IF b THEN One ELSE Zero

\* jnp.max(t * is_data_outside_stst, axis=-1), one row
Tpre(row, t, ss) == FMax([j \in 1..Len(t) |-> FMul(t[j], Mask(IsOutside(row[j], ss)))])

\* mutant: the zeros of t_stable are not replaced by infinity
TstopKeepZeros(t, tpre) ==
    FMin([j \in 1..Len(t) |-> FMul(t[j], Mask(FGt(t[j], tpre)))])

\* jnp.min over t_stable, one row
Tstop(t, tpre) ==
    LET t_stable == [j \in 1..Len(t) |-> FMul(t[j], Mask(FGt(t[j], tpre)))]
    IN  FMin([j \in 1..Len(t) |-> IF FNe(t_stable[j], Zero) THEN t_stable[j] ELSE PInf])

\* steady_states is a column: one value per row of data
compute_step_response_times(data, t, steady_states, signal_time) ==
    [i \in 1..Len(data) |->
        LET tstop == Tstop(t, Tpre(data[i], t, steady_states[i]))
        IN  IF FNe(tstop, Zero) THEN FSub(tstop, signal_time) ELSE PInf]

(* ---------------- timeseries.py: generate_base_analytics -------------- *)
\* [int(i) for i in np.where(signal_onehot == 1)[0]]: Python's indices of the
\* marked species, ascending; <<>> when signal_onehot is None is never used
RECURSIVE SignalIdxs(_, _)
SignalIdxs(signal_onehot, i) ==
    IF i > Len(signal_onehot) THEN <<>>
    ELSE (IF signal_onehot[i] = 1 THEN <<i - 1>> ELSE <<>>)
         \o SignalIdxs(signal_onehot, i + 1)

\* mutant: the suffix whatever the number of signals
MetricNameSuffixed(base, signal_idxs, s_idx) ==
    base \o "_wrt_species-" \o ToString(s_idx)

\* the names one pass of the signal loop stores under
MetricName(base, signal_idxs, s_idx) ==
    IF Len(signal_idxs) = 1 THEN base
    ELSE base \o "_wrt_species-" \o ToString(s_idx)

\* the body of `for s, s_idx in zip(signal_labels, signal_idxs)`, from the
\* k-th signal on
RECURSIVE SignalLoop(_, _, _, _, _, _, _)
SignalLoop(analytics, k, signal_idxs, data, t, signal_time, peaks) ==
    IF k > Len(signal_idxs) THEN analytics
    ELSE LET s_idx == signal_idxs[k]
             t_end == IF Len(t) < Len(data[1]) THEN Len(t) ELSE Len(data[1])
             p == compute_precision(analytics["initial_steady_states"],
                                    analytics["steady_states"],
                                    At(analytics["initial_steady_states"], s_idx),
                                    At(peaks, s_idx))
             r == compute_step_response_times(
                      [i \in 1..Len(data) |-> SubSeq(data[i], 1, t_end)],
                      SubSeq(t, 1, t_end), analytics["steady_states"], signal_time)
             s == compute_sensitivity(s_idx, analytics["initial_steady_states"], peaks)
             stored == (MetricName("precision", signal_idxs, s_idx) :> p)
                       @@ (MetricName("response_time", signal_idxs, s_idx) :> r)
                       @@ (MetricName("sensitivity", signal_idxs, s_idx) :> s)
         IN  SignalLoop(stored @@ analytics, k + 1, signal_idxs, data, t,
                        signal_time, peaks)

\* the peaks local of generate_base_analytics
BasePeaks(data) ==
    compute_peaks([i \in 1..Len(data) |-> data[i][1]],
                  [i \in 1..Len(data) |-> data[i][Len(data[i])]],
                  [i \in 1..Len(data) |-> FMax(data[i])],
                  [i \in 1..Len(data) |-> FMin(data[i])])

\* data is [species, time]; signal_onehot is None or a 0/1 vector, one entry
\* per species;
\* ref_circuit_data is None and include_deriv False, as generate_analytics
\* calls it
generate_base_analytics(data, t, labels, signal_onehot, signal_time) ==
    LET initial_steady_states == [i \in 1..Len(data) |-> data[i][1]]
        steady_states == [i \in 1..Len(data) |-> data[i][Len(data[i])]]
        peaks == BasePeaks(data)
        base == ("initial_steady_states" :> initial_steady_states)
                @@ ("max_amount" :> [i \in 1..Len(data) |-> FMax(data[i])])
                @@ ("min_amount" :> [i \in 1..Len(data) |-> FMin(data[i])])
                @@ ("steady_states" :> steady_states)
                @@ ("RMSE" :> compute_rmse_none(data))
                @@ ("fold_change" :> compute_fold_change(initial_steady_states,
                                                         steady_states))
                @@ ("overshoot" :> compute_overshoot(steady_states, peaks))
    IN  IF signal_onehot = None THEN base
        ELSE SignalLoop(base, 1, SignalIdxs(signal_onehot, 1), data, t,
                        signal_time, peaks)

\* compute_derivative: jnp.gradient(data) differentiates along both axes and
\* rejects an axis shorter than 2 with a ValueError; library releases without
\* that check return.  A single time sample never reaches jnp.gradient.
DerivativeOutcomes(data) ==
    IF Len(data[1]) <= 1 \/ Len(data) >= 2 THEN {"returns"}
    ELSE {"returns", "ValueError"}

(* ------------------- timeseries.py: generate_analytics ---------------- *)
\* data.shape.index(len(labels)): the first axis of that length; -1 stands
\* for the ValueError tuple.index raises when there is none
ShapeIndex(shape, n) ==
    IF shape[1] = n THEN 0 ELSE IF shape[2] = n THEN 1 ELSE -1

\* mutant: the species axis is found and the data left as it is
SpeciesFirstNoSwap(data, labels) ==
    IF Len(data) # Len(labels)
    THEN (IF ShapeIndex(Shape(data), Len(labels)) = -1
          THEN [err |-> "ValueError", data |-> data]
          ELSE [err |-> "none", data |-> data])
    ELSE [err |-> "none", data |-> data]

\* the data handed to generate_base_analytics
SpeciesFirst(data, labels) ==
    IF Len(data) # Len(labels)
    THEN (IF ShapeIndex(Shape(data), Len(labels)) = -1
          THEN [err |-> "ValueError", data |-> data]
          ELSE [err |-> "none", data |-> SwapAxes(data)])
    ELSE [err |-> "none", data |-> data]

\* the result of a call: err names the exception raised ("none": returned);
\* data and peaks are the locals the metrics were computed from.  deriv is
\* the outcome of compute_derivative
generate_analytics(data, time, labels, signal_onehot, signal_time, deriv) ==
    LET swapped == SpeciesFirst(data, labels)
    IN  IF swapped.err # "none" \/ deriv # "returns"
        THEN [err |-> "ValueError", analytics |-> EmptyDict,
              data |-> swapped.data, peaks |-> <<>>]
        ELSE [err |-> "none",
              analytics |-> generate_base_analytics(swapped.data, time, labels,
                                                    signal_onehot, signal_time),
              data |-> swapped.data, peaks |-> BasePeaks(swapped.data)]

\* Timeseries.__init__: np.arange over the time axis
Arange(n) == [j \in 1..n |-> FromInt(j - 1)]

(* -------------- timeseries.py: generate_differences_ratios ------------ *)
\* the suffixes of analytics/naming.py
DIFF_KEY == "_diff_to_base_circuit"
RATIO_KEY == "_ratio_from_mutation_to_base"

\* an entry of an analytics dictionary: [ndim |-> 1, val |-> vector] or
\* [ndim |-> 2, val |-> matrix]
Min2(a, b) == IF a < b THEN a ELSE b
Prefix(x, t_end) == [i \in 1..Len(x) |-> SubSeq(x[i], 1, t_end)]

Subtract(x, y) ==
    IF x.ndim = 1 THEN [ndim |-> 1, val |-> [i \in 1..Len(x.val) |-> FSub(x.val[i], y.val[i])]]
    ELSE [ndim |-> 2, val |-> [i \in 1..Len(x.val) |->
              [j \in 1..Len(x.val[i]) |-> FSub(x.val[i][j], y.val[i][j])]]]

\* jnp.where(ref != 0, jnp.divide(x, ref), np.inf)
GuardedRatio(a, r) == IF FNe(r, Zero) THEN FDiv(a, r) ELSE PInf

Ratio(x, y) ==
    IF x.ndim = 1 THEN [ndim |-> 1, val |-> [i \in 1..Len(x.val) |-> GuardedRatio(x.val[i], y.val[i])]]
    ELSE [ndim |-> 2, val |-> [i \in 1..Len(x.val) |->
              [j \in 1..Len(x.val[i]) |-> GuardedRatio(x.val[i][j], y.val[i][j])]]]

\* the operands of one pass of the loop: the shared time prefix when both
\* entries have more than one dimension, the entries themselves otherwise
\* (entries of one key have the same number of dimensions and of species)
Operand(x, y) ==
    IF x.ndim > 1 /\ y.ndim > 1
    THEN [ndim |-> 2, val |-> Prefix(x.val, Min2(Len(x.val[1]), Len(y.val[1])))]
    ELSE x

\* `for k in ref_analytics.keys()` reads analytics[k]: a key only the
\* reference has raises KeyError
generate_differences_ratios(analytics, ref_analytics) ==
    IF \E k \in DOMAIN ref_analytics : k \notin DOMAIN analytics
    THEN [err |-> "KeyError", differences |-> EmptyDict, ratios |-> EmptyDict]
    ELSE [err |-> "none",
          differences |-> [kd \in {k \o DIFF_KEY : k \in DOMAIN ref_analytics} |->
              LET k == CHOOSE k \in DOMAIN ref_analytics : k \o DIFF_KEY = kd
              IN  Subtract(Operand(analytics[k], ref_analytics[k]),
                           Operand(ref_analytics[k], analytics[k]))],
          ratios |-> [kr \in {k \o RATIO_KEY : k \in DOMAIN ref_analytics} |->
              LET k == CHOOSE k \in DOMAIN ref_analytics : k \o RATIO_KEY = kr
              IN  Ratio(Operand(analytics[k], ref_analytics[k]),
                        Operand(ref_analytics[k], analytics[k]))]]

(* ----------------------------- physical.py ---------------------------- *)
\* eqconstants is a vector, k_f a scalar: (k_f * ones_like(k_r), k_r)
eqconstant_to_rates(eqconstants, k_f) ==
    LET k_r == [i \in 1..Len(eqconstants) |-> FDiv(k_f, eqconstants[i])]
    IN  <<[i \in 1..Len(k_r) |-> FMul(k_f, One)], k_r>>

\* mutant: the quotient the other way round
rates_to_eqconstant_inverted(k_f, k_r) == [i \in 1..Len(k_r) |-> FDiv(k_r[i], k_f[i])]

\* both vectors
rates_to_eqconstant(k_f, k_r) == [i \in 1..Len(k_r) |-> FDiv(k_f[i], k_r[i])]

(* ------------------------------ inputs -------------------------------- *)
Vals == 0..MaxVal
SignedVals == -1..MaxVal

\* a trajectory from i over the excursion p to f, T samples long
Traj(i, p, f, T) ==
    [j \in 1..T |-> IF j = 1 THEN FromInt(i) ELSE IF j = T THEN FromInt(f)
                    ELSE FromInt(p)]

\* every one-species trajectory of that family, and the trajectory
\* [1, 2, 3, 2, 1]
SpecExample == <<[j \in 1..5 |-> FromInt(IF j <= 3 THEN j ELSE 6 - j)]>>
OneSpecies ==
    {<<Traj(i, p, f, T)>> : i \in Vals, p \in Vals, f \in Vals, T \in 1..MaxTime}
    \cup {SpecExample}

\* a pulse that adapts perfectly, a rise with overshoot, a fall with
\* undershoot, a rise from zero, a flat line
Excursions == {<<1, 3, 1>>, <<1, 3, 2>>, <<2, 0, 1>>, <<0, 2, 1>>, <<2, 2, 2>>}
ManySpecies ==
    UNION {{[i \in 1..n |-> Traj(e[i][1], e[i][2], e[i][3], T)] :
                e \in [1..n -> Excursions]} :
           n \in 2..MaxSpecies, T \in 1..MaxTime}

\* trajectories as [species, time] and as [time, species]
Trajectories ==
    LET sf == OneSpecies \cup ManySpecies IN sf \cup {SwapAxes(d) : d \in sf}

Labels(n) == [i \in 1..n |-> "RNA_" \o ToString(i - 1)]
OneHots(n) == {None} \cup [1..n -> {0, 1}]
SignalTimes == {FromInt(0), FromInt(1)}

\* every value of the format
Magnitudes == {m * Pow2(k) : m \in 0..(TwoP - 1), k \in 0..ExpRange}
Floats == {Fin(sg, n) : sg \in {-1, 1}, n \in Magnitudes} \cup {PInf, NInf, NaN}
\* forward rates are not negative
ForwardRates == {x \in Floats : IsNaN(x) \/ x[2] = 1}
EqConstants == {<<K>> : K \in Floats} \cup {<<FromInt(v), FromInt(w)>> : v, w \in Vals}

\* analytics dictionaries of one species: a vector entry, a time-resolved
\* entry, both or neither
VectorEntries == {[ndim |-> 1, val |-> <<FromInt(v)>>] : v \in 0..2}
MatrixEntries ==
    {[ndim |-> 2, val |-> <<[j \in 1..T |-> FromInt(f[j])]>>] :
        f \in [1..2 -> {0, 2}], T \in 1..2}
Dicts ==
    {EmptyDict}
    \cup {("steady_states" :> v) : v \in VectorEntries}
    \cup {("first_derivative" :> m) : m \in MatrixEntries}
    \cup {("steady_states" :> v) @@ ("first_derivative" :> m) :
             v \in VectorEntries, m \in MatrixEntries}

(* ------------------------------ actions ------------------------------- *)
Init == pc = "idle" /\ op = "none" /\ args = <<>> /\ ret = <<>>

GenerateAnalytics ==
    /\ pc = "idle"
    /\ \E data \in Trajectories, n \in 1..MaxSpecies :
       \E signal_onehot \in OneHots(n), signal_time \in {FromInt(1)} :
       LET labels == Labels(n)
           swapped == SpeciesFirst(data, labels)
           time == Arange(Len(swapped.data[1]))
       IN  \E deriv \in DerivativeOutcomes(swapped.data) :
           /\ args' = [data |-> data, time |-> time, labels |-> labels,
                       signal_onehot |-> signal_onehot,
                       signal_time |-> signal_time]
           /\ ret' = generate_analytics(data, time, labels, signal_onehot,
                                        signal_time, deriv)
    /\ op' = "generate_analytics"
    /\ pc' = "done"

ComputeFoldChange ==
    /\ pc = "idle"
    /\ \E a \in SignedVals, b \in SignedVals :
       /\ args' = [starting_states |-> <<FromInt(a)>>,
                   steady_states |-> <<FromInt(b)>>]
       /\ ret' = compute_fold_change(<<FromInt(a)>>, <<FromInt(b)>>)
    /\ op' = "compute_fold_change"
    /\ pc' = "done"

CalculateSensitivityCore ==
    /\ pc = "idle"
    /\ \E od \in SignedVals, st \in SignedVals, sd \in SignedVals,
          s0 \in SignedVals :
       /\ args' = [output_diff |-> <<FromInt(od)>>,
                   starting_states |-> <<FromInt(st)>>,
                   signal_diff |-> FromInt(sd), signal_0 |-> FromInt(s0)]
       /\ ret' = calculate_sensitivity_core(<<FromInt(od)>>, <<FromInt(st)>>,
                                            FromInt(sd), FromInt(s0))
    /\ op' = "calculate_sensitivity_core"
    /\ pc' = "done"

ComputeStepResponseTimes ==
    /\ pc = "idle"
    /\ \E data \in OneSpecies, ss \in Vals, t0 \in {0, 1},
          signal_time \in SignalTimes :
       LET t == [j \in 1..Len(data[1]) |-> FromInt(t0 + j - 1)]
       IN  /\ args' = [data |-> data, t |-> t, steady_states |-> <<FromInt(ss)>>,
                       signal_time |-> signal_time]
           /\ ret' = compute_step_response_times(data, t, <<FromInt(ss)>>,
                                                 signal_time)
    /\ op' = "compute_step_response_times"
    /\ pc' = "done"

GenerateDifferencesRatios ==
    /\ pc = "idle"
    /\ \E analytics \in Dicts, ref_analytics \in Dicts :
       /\ args' = [analytics |-> analytics, ref_analytics |-> ref_analytics]
       /\ ret' = generate_differences_ratios(analytics, ref_analytics)
    /\ op' = "generate_differences_ratios"
    /\ pc' = "done"

EqconstantToRates ==
    /\ pc = "idle"
    /\ \E eqconstants \in EqConstants, k_f \in ForwardRates :
       /\ args' = [eqconstants |-> eqconstants, k_f |-> k_f]
       /\ ret' = eqconstant_to_rates(eqconstants, k_f)
    /\ op' = "eqconstant_to_rates"
    /\ pc' = "rates"

\* the pair eqconstant_to_rates returned is handed to rates_to_eqconstant;
\* args keeps the equilibrium constants the pair came from
RatesToEqconstant ==
    /\ pc = "rates"
    /\ args' = [eqconstants |-> args.eqconstants, k_f |-> ret[1], k_r |-> ret[2]]
    /\ ret' = rates_to_eqconstant(ret[1], ret[2])
    /\ op' = "rates_to_eqconstant"
    /\ pc' = "done"

\* the caller takes the result
Return ==
    /\ pc \in {"done", "rates"}
    /\ pc' = "idle" /\ op' = "none" /\ args' = <<>> /\ ret' = <<>>

Next ==
    \/ GenerateAnalytics
    \/ ComputeFoldChange
    \/ CalculateSensitivityCore
    \/ ComputeStepResponseTimes
    \/ GenerateDifferencesRatios
    \/ EqconstantToRates
    \/ RatesToEqconstant
    \/ Return

Spec == Init /\ [][Next]_vars
(* ============================== claims =============================== *)
Returned(o) == pc = "done" /\ op = o
\* generate_analytics returned a dictionary
Analysed == Returned("generate_analytics") /\ ret.err = "none"
Species == 1..Len(ret.data)
BaseKeys ==
    {"initial_steady_states", "max_amount", "min_amount", "steady_states",
     "RMSE", "fold_change", "overshoot"}
\* Python's indices of the species signal_onehot marks
Marked ==
    IF args.signal_onehot = None THEN {}
    ELSE {i - 1 : i \in {j \in 1..Len(args.signal_onehot) : args.signal_onehot[j] = 1}}
KeyFor(base, s) ==
    IF Cardinality(Marked) = 1 THEN base ELSE base \o "_wrt_species-" \o ToString(s)

(* ------------------------------- C1 ---------------------------------- *)
\* the peak as the claim chooses it
ClaimedPeak(init, ss, maxa, mina) ==
    LET chosen == IF FGt(ss, init) THEN maxa ELSE mina
    IN  IF FLt(init, chosen) THEN chosen ELSE maxa

\* C1 (as stated; refuted): the peak of every species is max_amount if
\* steady_state > initial_steady_state, else min_amount, and is forced to
\* max_amount when initial_steady_state is not below that choice; for the
\* trajectory [1,2,3,2,1] the peak is 3 and the overshoot 2.
C1_PeakForcedToMax ==
    Analysed =>
        /\ \A i \in Species :
              ret.peaks[i] = ClaimedPeak(ret.analytics["initial_steady_states"][i],
                                         ret.analytics["steady_states"][i],
                                         ret.analytics["max_amount"][i],
                                         ret.analytics["min_amount"][i])
        /\ args.data = SpecExample =>
              /\ ret.peaks = <<FromInt(3)>>
              /\ ret.analytics["overshoot"] = <<FromInt(2)>>

(* ------------------------------- C10 --------------------------------- *)
Rising(i) ==
    FGt(ret.analytics["steady_states"][i], ret.analytics["initial_steady_states"][i])

\* C10: the peak inside generate_base_analytics is max_amount exactly for the
\* species whose last sample is strictly greater than their first, and
\* min_amount for every other species; overshoot is max_amount - steady_state
\* in the first case, steady_state - min_amount in the second, and never
\* negative.
C10_PeakIsMaxIffRising ==
    Analysed =>
        \A i \in Species :
            /\ ret.peaks[i] = IF Rising(i) THEN ret.analytics["max_amount"][i]
                              ELSE ret.analytics["min_amount"][i]
            /\ ret.analytics["overshoot"][i] =
                  IF Rising(i)
                  THEN FSub(ret.analytics["max_amount"][i], ret.analytics["steady_states"][i])
                  ELSE FSub(ret.analytics["steady_states"][i], ret.analytics["min_amount"][i])
            /\ ~IsNaN(ret.analytics["overshoot"][i])
            /\ ~FLt(ret.analytics["overshoot"][i], Zero)

\* a species that does not rise and has an excursion above its minimum: the
\* fallback branch decides its peak
C10_Witness ==
    /\ Analysed
    /\ \E i \in Species :
          /\ ~Rising(i)
          /\ FLt(ret.analytics["min_amount"][i], ret.analytics["max_amount"][i])
          /\ ret.peaks[i] = ret.analytics["min_amount"][i]

(* ------------------------------- C2 ---------------------------------- *)
\* C2 (as stated; refuted): compute_fold_change returns NaN exactly when
\* initial_steady_state == 0 and steady_state / initial_steady_state for
\* every nonzero initial_steady_state, negative ones included.
C2_FoldChange ==
    Returned("compute_fold_change") =>
        ret[1] = IF FEq(args.starting_states[1], Zero) THEN NaN
                 ELSE FDiv(args.steady_states[1], args.starting_states[1])

(* ------------------------------- C3 ---------------------------------- *)
\* the 1% band of the claim, in exact arithmetic on the quanta of amounts
\* that are not negative
ClaimOutside(x, ss) == 100 * x[3] > 101 * ss[3] \/ 100 * x[3] < 99 * ss[3]
NeverOutside ==
    \A j \in 1..Len(args.t) : ~ClaimOutside(args.data[1][j], args.steady_states[1])

\* C3 (as stated; refuted): compute_step_response_times returns +infinity
\* for every species whose trajectory is never outside the 1% band around
\* its steady state; a finite value is returned only for species that are
\* outside the band at some sample.
C3_InfiniteWhenNeverOutside ==
    Returned("compute_step_response_times") => (NeverOutside => ret[1] = PInf)

\* the time of the last sample outside the band (0 when there is none), the
\* samples after it whose time is not 0, and the first of them
LastOutside ==
    LET out == {j \in 1..Len(args.t) :
                   ClaimOutside(args.data[1][j], args.steady_states[1])}
    IN  IF out = {} THEN 0 ELSE Key(args.t[CHOOSE j \in out : \A k \in out : k <= j])
Settled == {j \in 1..Len(args.t) : Key(args.t[j]) > LastOutside /\ Key(args.t[j]) # 0}
FirstSettled == CHOOSE j \in Settled : \A k \in Settled : j <= k

\* C3 (amended): for sample times that increase and are not negative,
\* compute_step_response_times returns +infinity exactly for the species
\* that have no sample with a nonzero time after their last sample outside
\* the band (so whenever the last sample is outside the band), and
\* t_stop - signal_time for every other species, t_stop being the first such
\* sample time; a species never outside the band gets the finite value
\* (first nonzero sample time) - signal_time.
C3_ResponseTime ==
    Returned("compute_step_response_times") =>
        /\ ret[1] = IF Settled = {} THEN PInf
                    ELSE FSub(args.t[FirstSettled], args.signal_time)
        /\ (ret[1] = PInf) <=> (Settled = {})

\* a trajectory that never leaves the band and gets a finite response time
C3_Witness ==
    /\ Returned("compute_step_response_times")
    /\ NeverOutside
    /\ Len(args.t) >= 2
    /\ IsFin(ret[1])

(* ------------------------------- C4 ---------------------------------- *)
\* |((signal_peak - signal_initial)/signal_initial) / ((out_end - out_initial)
\* /out_initial)| with the two guards of the claim
PrecisionOf(signal_peak, signal_initial, out_end, out_initial) ==
    LET numer == IF FEq(signal_initial, Zero) THEN One
                 ELSE FDiv(FSub(signal_peak, signal_initial), signal_initial)
        denom == IF FEq(out_initial, Zero) THEN One
                 ELSE FDiv(FSub(out_end, out_initial), out_initial)
    IN  FAbs(FDiv(numer, denom))

\* C4 (as stated; refuted): the precision stored for a signal species is the
\* guarded ratio taken with the output species' peak.
C4_PrecisionFromOutputPeak ==
    Analysed =>
        \A s \in Marked : \A i \in Species :
            ret.analytics[KeyFor("precision", s)][i] =
                PrecisionOf(ret.peaks[s + 1],
                            ret.analytics["initial_steady_states"][s + 1],
                            ret.peaks[i],
                            ret.analytics["initial_steady_states"][i])

\* C4 (amended): the precision stored for a signal species is
\* |((signal_peak - signal_initial)/signal_initial) /
\*  ((output_steady_state - output_initial)/output_initial)|: the output
\* enters with its steady state (last sample), not its peak; the numerator
\* is 1 when signal_initial == 0 and the denominator 1 when
\* output_initial == 0.
C4_PrecisionFromSteadyState ==
    Analysed =>
        \A s \in Marked : \A i \in Species :
            ret.analytics[KeyFor("precision", s)][i] =
                PrecisionOf(ret.peaks[s + 1],
                            ret.analytics["initial_steady_states"][s + 1],
                            ret.analytics["steady_states"][i],
                            ret.analytics["initial_steady_states"][i])

\* an output whose peak is not its steady state, with the precision stored
C4_Witness ==
    /\ Analysed
    /\ \E s \in Marked : \E i \in Species :
          /\ ret.peaks[i] # ret.analytics["steady_states"][i]
          /\ FNe(ret.analytics["initial_steady_states"][i], Zero)
          /\ FNe(ret.analytics["initial_steady_states"][s + 1], Zero)
          /\ IsFin(ret.analytics[KeyFor("precision", s)][i])

(* ------------------------------- C5 ---------------------------------- *)
\* the cases of the claim, in its order
SensitivityOf(output_diff, initial, signal_diff, signal_initial) ==
    IF FEq(signal_initial, Zero) THEN PInf
    ELSE IF FEq(initial, Zero) THEN PInf
    ELSE IF FEq(output_diff, Zero) THEN NaN
    ELSE FAbs(FDiv(FDiv(output_diff, initial), FDiv(signal_diff, signal_initial)))

\* C5: sensitivity is +infinity if signal_initial == 0; otherwise +infinity
\* if the species' initial value is 0; otherwise NaN if output_diff is 0;
\* otherwise |((peak - initial)/initial) / ((signal_peak - signal_initial)
\* /signal_initial)|.  No case raises.
C5_SensitivitySentinels ==
    /\ Returned("calculate_sensitivity_core") =>
          ret[1] = SensitivityOf(args.output_diff[1], args.starting_states[1],
                                 args.signal_diff, args.signal_0)
    /\ Analysed =>
          \A s \in Marked : \A i \in Species :
              ret.analytics[KeyFor("sensitivity", s)][i] =
                  SensitivityOf(FSub(ret.peaks[i], ret.analytics["initial_steady_states"][i]),
                                ret.analytics["initial_steady_states"][i],
                                FSub(ret.peaks[s + 1],
                                     ret.analytics["initial_steady_states"][s + 1]),
                                ret.analytics["initial_steady_states"][s + 1])

\* a nonzero signal baseline and an output that starts at a nonzero value
\* and does not change: NaN
C5_Witness ==
    /\ Returned("calculate_sensitivity_core")
    /\ FNe(args.signal_0, Zero)
    /\ FNe(args.starting_states[1], Zero)
    /\ FEq(args.output_diff[1], Zero)
    /\ IsNaN(ret[1])

(* ------------------------------- C6 ---------------------------------- *)
\* neither zero, subnormal, infinite nor NaN
Normal(x) == IsFin(x) /\ x[3] >= Pow2(Precision - 1)

\* the pair eqconstant_to_rates returns: k_f in the shape of K, and k_f / K
RatesPair ==
    (pc = "rates") =>
        /\ Len(ret[1]) = Len(args.eqconstants)
        /\ Len(ret[2]) = Len(args.eqconstants)
        /\ \A i \in 1..Len(args.eqconstants) :
              /\ ret[1][i] = args.k_f
              /\ ret[2][i] = FDiv(args.k_f, args.eqconstants[i])

\* C6 (as stated; refuted): for every forward rate k_f and every K other
\* than 0 and +infinity, rates_to_eqconstant on the pair eqconstant_to_rates
\* returned gives K again; the pair is k_f in the shape of K, and k_f / K.
C6_RoundTripExact ==
    /\ RatesPair
    /\ Returned("rates_to_eqconstant") =>
          \A i \in 1..Len(args.eqconstants) :
              (~IsZero(args.eqconstants[i]) /\ args.eqconstants[i] # PInf)
                  => ret[i] = args.eqconstants[i]

\* C6 (amended): for every finite nonzero k_f and every K such that K and
\* k_f / K are normal numbers (finite, nonzero, no underflow), the round
\* trip returns K up to rounding: a finite value of the sign of K within
\* 3 * 2^-Precision * |K| of K.  For k_f = 0 the round trip returns NaN.  The
\* pair is k_f in the shape of K, and k_f / K.
C6_RoundTripRounded ==
    /\ RatesPair
    /\ Returned("rates_to_eqconstant") =>
          \A i \in 1..Len(args.eqconstants) :
              /\ (/\ IsFin(args.k_f[i]) /\ ~IsZero(args.k_f[i])
                  /\ Normal(args.eqconstants[i]) /\ Normal(args.k_r[i]))
                 => /\ IsFin(ret[i])
                    /\ ret[i][2] = args.eqconstants[i][2]
                    /\ AbsInt(ret[i][3] - args.eqconstants[i][3]) * TwoP
                          <= 3 * args.eqconstants[i][3]
              /\ IsZero(args.k_f[i]) => IsNaN(ret[i])

\* a round trip within the amended claim's conditions that does not return
\* K exactly
C6_Witness ==
    /\ Returned("rates_to_eqconstant")
    /\ IsFin(args.k_f[1]) /\ ~IsZero(args.k_f[1])
    /\ Normal(args.eqconstants[1]) /\ Normal(args.k_r[1])
    /\ ret[1] # args.eqconstants[1]

(* ------------------------------- C7 ---------------------------------- *)
\* C7: generate_analytics fails with a ValueError and returns no analytics
\* whenever no axis of the trajectory has len(labels) entries; when axis 0
\* does not match and axis 1 does, the metrics are computed from the swapped
\* trajectory, whose axis 0 has len(labels) entries, and every metric has
\* len(labels) entries.
C7_SpeciesAxis ==
    Returned("generate_analytics") =>
        LET n == Len(args.labels)
            d0 == Len(args.data)
            d1 == Len(args.data[1])
        IN  /\ (d0 # n /\ d1 # n) => (ret.err = "ValueError" /\ DOMAIN ret.analytics = {})
            /\ (d0 # n /\ d1 = n) =>
                  /\ Len(ret.data) = n
                  /\ \A i \in 1..n : \A j \in 1..d0 : ret.data[i][j] = args.data[j][i]
            /\ ret.err = "none" =>
                  /\ Len(ret.data) = n
                  /\ \A k \in DOMAIN ret.analytics : Len(ret.analytics[k]) = n

\* a [time, species] trajectory that was swapped and analysed
C7_Witness ==
    /\ Analysed
    /\ Len(args.data) # Len(args.labels)
    /\ Len(args.data[1]) = Len(args.labels)
    /\ Marked # {}
    /\ \A k \in DOMAIN ret.analytics : Len(ret.analytics[k]) = Len(args.labels)

(* ------------------------------- C8 ---------------------------------- *)
SignalBases == {"precision", "sensitivity", "response_time"}

\* C8: without a signal one-hot vector, or with one that marks no species,
\* the dictionary has no precision/sensitivity/response_time key; with one
\* marked species it has exactly the three unsuffixed keys; with k > 1 marked
\* species exactly the k keys '<kind>_wrt_species-<i>' of each kind and no
\* unsuffixed key.
C8_SignalKeys ==
    Analysed =>
        DOMAIN ret.analytics \ BaseKeys =
            IF Cardinality(Marked) = 0 THEN {}
            ELSE IF Cardinality(Marked) = 1 THEN SignalBases
            ELSE {b \o "_wrt_species-" \o ToString(i) : b \in SignalBases, i \in Marked}

\* two marked species: two suffixed keys of each kind
C8_Witness ==
    /\ Analysed
    /\ Cardinality(Marked) = 2
    /\ Cardinality(DOMAIN ret.analytics \ BaseKeys) = 6

(* ------------------------------- C9 ---------------------------------- *)
SharedKeys == DOMAIN args.analytics \cap DOMAIN args.ref_analytics

\* C9 (as stated; refuted): for any two dictionaries
\* generate_differences_ratios returns one difference and one ratio entry for
\* every shared key and only for those: analytics - reference, and
\* analytics / reference (+infinity where the reference is zero), over the
\* shared time prefix for entries with more than one dimension.
C9_SharedKeys ==
    Returned("generate_differences_ratios") =>
        /\ ret.err = "none"
        /\ DOMAIN ret.differences = {k \o DIFF_KEY : k \in SharedKeys}
        /\ DOMAIN ret.ratios = {k \o RATIO_KEY : k \in SharedKeys}
        /\ \A k \in SharedKeys :
              LET a == Operand(args.analytics[k], args.ref_analytics[k])
                  r == Operand(args.ref_analytics[k], args.analytics[k])
              IN  /\ ret.differences[k \o DIFF_KEY] = Subtract(a, r)
                  /\ ret.ratios[k \o RATIO_KEY] = Ratio(a, r)
====
